---- MODULE Spec2Model ----
(***************************************************************************)
(* Registration lifecycle of the two kernel abstractions                   *)
(*   rust/kernel/mlx4.rs   Registration<T: Mlx4Operation>                  *)
(*   rust/kernel/rxe.rs    Registration<T: RxeOperation>                   *)
(* One Registration object is constructed, register() is called on it any  *)
(* number of times (bounded), and it is finally dropped.  Every step of    *)
(* register() and of the destructors is one action; the kernel functions   *)
(* the code calls are the collaborators, whose results are inputs.         *)
(***************************************************************************)
EXTENDS Integers, Sequences, FiniteSets, TLC

\* bound: number of register() calls made on the instance
MaxRegisterCalls == 3

EINVAL == -22
EAFNOSUPPORT == -97
MAX_ERRNO == 4095

\* error codes the collaborators may report (ENOMEM, EBUSY)
Errnos == {-12, -16}

Variants == {"mlx4", "rxe"}

VARIABLES
    variant,      \* which Registration<T> is instantiated
    config_ipv6,  \* #[cfg(CONFIG_IPV6)] of the build
    pc,           \* position of the caller's thread
    this,         \* the fields of the Registration
    kernel,       \* what the hosting kernel holds
    acquired,     \* sub-resources whose last acquisition succeeded, not released since
    calls,        \* collaborator calls made by the operation in progress
    ret,          \* result of the last register() that returned
    nreg,         \* number of register() calls so far
    past,         \* collaborator calls made by the operations already finished
    dispatch,     \* the last call the host made through an entry point of the adapter
    pinned        \* how the instance was made: new(), or the progress of new_pinned()

vars ==
    <<variant, config_ipv6, pc, this, kernel, acquired, calls, ret, nreg, past,
      dispatch, pinned>>

----------------------------------------------------------------------------
\* Option<_>
None == <<>>
Some(x) == <<x>>
is_some(o) == o # None

\* Result
NoResult == <<"none">>
Ok == <<"Ok">>
Err(e) == <<"Err", e>>
IsErr(r) == Len(r) = 2

\* Error::from_kernel_errno: an out-of-range errno becomes EINVAL
from_kernel_errno(errno) ==
    IF errno < -MAX_ERRNO \/ errno >= 0 THEN EINVAL ELSE errno

\* one collaborator call: the sub-resource it is about, the object passed,
\* the errno returned, whether the Registration's field was Some when the
\* function making the call was entered, and whether the sub-resource was
\* held (acquired and not released since) when the call was made
Call(op, res, arg, err, present, held) ==
    [op |-> op, res |-> res, arg |-> arg, err |-> err,
     present |-> present, held |-> held]

\* acquisition order of the sub-resources
Mlx4Order == <<"wq", "qp_wq", "cm_wq", "mcg_wq">>
RxeOrder == <<"sk4", "sk6", "rxe_net_notifier">>
Order == IF variant = "mlx4" THEN Mlx4Order ELSE RxeOrder

\* the state an operation works on; r is the Result of the function applied
Cur ==
    [this |-> this, kernel |-> kernel, acquired |-> acquired, calls |-> calls,
     r |-> Ok]

Commit(s) ==
    /\ this' = s.this
    /\ kernel' = s.kernel
    /\ acquired' = s.acquired
    /\ calls' = s.calls

----------------------------------------------------------------------------
\* mlx4: the four work queues

Mlx4New ==
    [registered |-> FALSE, wq |-> None, cm_wq |-> None, qp_wq |-> None,
     mcg_wq |-> None]

\* dropping a BoxedQueue destroys the work queue
BoxedQueue_drop(s, f) ==
    [s EXCEPT !.kernel.workqueues = @ \ {f},
              !.acquired = @ \ {f},
              !.calls = Append(@, Call("release", f, f, 0, is_some(s.this[f]),
                                       f \in s.acquired))]

\* self.f = match Queue::try_new(..) { Ok(q) => Some(q), Err(e) => return Err(e) }
WorkQueue_init(s, f, err) ==
    LET c == Call("acquire", f, f, err, is_some(s.this[f]), f \in s.acquired)
        s1 == [s EXCEPT !.calls = Append(@, c)]
    IN  IF err # 0 THEN [s1 EXCEPT !.r = Err(err)]
        ELSE LET s2 == IF is_some(s.this[f]) THEN BoxedQueue_drop(s1, f) ELSE s1
             IN  [s2 EXCEPT !.this[f] = Some(f),
                            !.kernel.workqueues = @ \cup {f},
                            !.acquired = @ \cup {f},
                            !.r = Ok]

\* mutant: the queue is dropped without looking at the field
WorkQueue_clean_unguarded(s, f) ==
    [BoxedQueue_drop(s, f) EXCEPT !.this[f] = None]

\* if self.f.is_some() { drop(self.f.take().unwrap()) }
WorkQueue_clean(s, f) ==
    IF is_some(s.this[f])
    THEN [BoxedQueue_drop(s, f) EXCEPT !.this[f] = None]
    ELSE s

Mlx4WorkQueue_init(s, err) == WorkQueue_init(s, "wq", err)
QpWorkQueue_init(s, err) == WorkQueue_init(s, "qp_wq", err)
CmWorkQueue_init(s, err) == WorkQueue_init(s, "cm_wq", err)
McgWorkQueue_init(s, err) == WorkQueue_init(s, "mcg_wq", err)

Mlx4WorkQueue_clean(s) == WorkQueue_clean(s, "wq")
QpWorkQueue_clean(s) == WorkQueue_clean(s, "qp_wq")
CmWorkQueue_clean(s) == WorkQueue_clean(s, "cm_wq")
McgWorkQueue_clean(s) == WorkQueue_clean(s, "mcg_wq")

\* the four match blocks of Registration::register
Mlx4_register_wq(s, err) == Mlx4WorkQueue_init(s, err)

\* mutant: the rollback's own error replaces the originating one
Mlx4_register_qp_wq_einval(s, err) ==
    LET s1 == QpWorkQueue_init(s, err)
    IN  IF IsErr(s1.r)
        THEN [Mlx4WorkQueue_clean(s1) EXCEPT !.r = Err(EINVAL)]
        ELSE s1

Mlx4_register_qp_wq(s, err) ==
    LET s1 == QpWorkQueue_init(s, err)
    IN  IF IsErr(s1.r)
        THEN [Mlx4WorkQueue_clean(s1) EXCEPT !.r = s1.r]
        ELSE s1

\* mutant: the Err arm rolls back but does not return
Mlx4_register_cm_wq_no_return(s, err) ==
    LET s1 == CmWorkQueue_init(s, err)
    IN  IF IsErr(s1.r)
        THEN [QpWorkQueue_clean(Mlx4WorkQueue_clean(s1)) EXCEPT !.r = Ok]
        ELSE s1

Mlx4_register_cm_wq(s, err) ==
    LET s1 == CmWorkQueue_init(s, err)
    IN  IF IsErr(s1.r)
        THEN [QpWorkQueue_clean(Mlx4WorkQueue_clean(s1)) EXCEPT !.r = s1.r]
        ELSE s1

\* mutant: the Err arm is empty, like the Ok arm
Mlx4_register_mcg_wq_no_return(s, err) ==
    [McgWorkQueue_init(s, err) EXCEPT !.r = Ok]

Mlx4_register_mcg_wq(s, err) ==
    LET s1 == McgWorkQueue_init(s, err)
    IN  IF IsErr(s1.r)
        THEN [QpWorkQueue_clean(CmWorkQueue_clean(Mlx4WorkQueue_clean(s1)))
                 EXCEPT !.r = s1.r]
        ELSE s1

\* bindings::mlx4_register_interface(Mlx4OperationTable::<T>::build())
mlx4_register_interface(s) ==
    [s EXCEPT !.kernel.published = TRUE,
              !.calls = Append(@, Call("publish", "mlx4_interface", "build()", 0,
                                       FALSE, s.kernel.published))]

\* mlx4_register_interface returns an int, which register() discards: the
\* call made to report err; a failed call registers nothing
mlx4_register_interface_fallible(s, err) ==
    [s EXCEPT !.kernel.published = @ \/ err = 0,
              !.calls = Append(@, Call("publish", "mlx4_interface", "build()", err,
                                       FALSE, s.kernel.published))]

\* what a pointer handed to the kernel points to: the temporary that
\* Mlx4OperationTable::build() returns the address of is gone when build()
\* returns; a field of the Registration lives until the Registration is freed
StorageLive(addr, at) ==
    /\ addr \in {"self.rxe_link_ops", "self.rxe_net_notifier"}
    /\ at # "dropped"

\* mutant: the already-registered guard is missing
Mlx4_never_registered(t) == FALSE

\* if this.registered { return Err(EINVAL) }
Mlx4_already_registered(t) == t.registered

\* Drop for Registration<T: Mlx4Operation>
Mlx4_Registration_drop(s) ==
    IF s.this.registered
    THEN Mlx4WorkQueue_clean(QpWorkQueue_clean(CmWorkQueue_clean(
             McgWorkQueue_clean(s))))
    ELSE s

\* the fields are dropped after Drop::drop, in declaration order
Mlx4_drop_fields(s) ==
    LET field(u, f) == IF is_some(u.this[f])
                       THEN [BoxedQueue_drop(u, f) EXCEPT !.this[f] = None]
                       ELSE u
    IN  field(field(field(field(s, "wq"), "cm_wq"), "qp_wq"), "mcg_wq")

----------------------------------------------------------------------------
\* rxe: two UDP tunnel sockets and the netdevice notifier

RxeNew ==
    [registered |-> FALSE,
     net_socket |-> [sk4 |-> None, sk6 |-> None, rxe_net_notifier |-> None],
     rxe_link_ops |-> "default"]

\* udp_sock_create4 + setup_udp_tunnel_sock
ipv4_init(s, err) ==
    LET c == Call("acquire", "sk4", "sk4", err, is_some(s.this.net_socket.sk4),
                  "sk4" \in s.acquired)
        s1 == [s EXCEPT !.calls = Append(@, c)]
    IN  IF err < 0 THEN [s1 EXCEPT !.r = Err(from_kernel_errno(err))]
        ELSE [s1 EXCEPT !.this.net_socket.sk4 = Some("sk4"),
                        !.kernel.socks = @ \cup {"sk4"},
                        !.acquired = @ \cup {"sk4"},
                        !.r = Ok]

\* mutant: EAFNOSUPPORT is an error like any other
ipv6_init_strict(s, cfg, err) ==
    IF ~cfg THEN [s EXCEPT !.r = Ok]
    ELSE
    LET c == Call("acquire", "sk6", "sk6", err, is_some(s.this.net_socket.sk6),
                  "sk6" \in s.acquired)
        s1 == [s EXCEPT !.calls = Append(@, c)]
    IN  IF err < 0
        THEN [s1 EXCEPT !.r = Err(from_kernel_errno(err))]
        ELSE [s1 EXCEPT !.this.net_socket.sk6 = Some("sk6"),
                        !.kernel.socks = @ \cup {"sk6"},
                        !.acquired = @ \cup {"sk6"},
                        !.r = Ok]

\* udp_sock_create6 + setup_udp_tunnel_sock, under #[cfg(CONFIG_IPV6)]
ipv6_init(s, cfg, err) ==
    IF ~cfg THEN [s EXCEPT !.r = Ok]
    ELSE
    LET c == Call("acquire", "sk6", "sk6", err, is_some(s.this.net_socket.sk6),
                  "sk6" \in s.acquired)
        s1 == [s EXCEPT !.calls = Append(@, c)]
    IN  IF err < 0
        THEN IF err = EAFNOSUPPORT THEN [s1 EXCEPT !.r = Ok]
             ELSE [s1 EXCEPT !.r = Err(from_kernel_errno(err))]
        ELSE [s1 EXCEPT !.this.net_socket.sk6 = Some("sk6"),
                        !.kernel.socks = @ \cup {"sk6"},
                        !.acquired = @ \cup {"sk6"},
                        !.r = Ok]

\* bindings::unregister_netdevice_notifier(&mut self.rxe_net_notifier.take().unwrap()):
\* the block is moved out of the field, the kernel is handed the temporary
unregister_netdevice_notifier(s) ==
    [s EXCEPT !.this.net_socket.rxe_net_notifier = None,
              !.kernel.netdev_chain = @ \ {"tmp"},
              !.acquired = @ \ {"rxe_net_notifier"},
              !.calls = Append(@, Call("release", "rxe_net_notifier", "tmp", 0,
                                       is_some(s.this.net_socket.rxe_net_notifier),
                                       "rxe_net_notifier" \in s.acquired))]

net_notifier_register(s, err) ==
    LET c == Call("acquire", "rxe_net_notifier", "self.rxe_net_notifier", err,
                  is_some(s.this.net_socket.rxe_net_notifier),
                  "rxe_net_notifier" \in s.acquired)
        s1 == [s EXCEPT !.this.net_socket.rxe_net_notifier = Some("NOTIFYFUNC"),
                        !.calls = Append(@, c)]
    IN  IF err # 0
        THEN LET s2 == IF is_some(s1.this.net_socket.rxe_net_notifier)
                       THEN unregister_netdevice_notifier(s1)
                       ELSE s1
             IN  [s2 EXCEPT !.r = Err(from_kernel_errno(err))]
        ELSE [s1 EXCEPT !.kernel.netdev_chain = @ \cup {"self.rxe_net_notifier"},
                        !.acquired = @ \cup {"rxe_net_notifier"},
                        !.r = Ok]

\* bindings::udp_tunnel_sock_release(self.f.take().unwrap())
udp_tunnel_sock_release(s, f) ==
    [s EXCEPT !.this.net_socket[f] = None,
              !.kernel.socks = @ \ {f},
              !.acquired = @ \ {f},
              !.calls = Append(@, Call("release", f, f, 0,
                                       is_some(s.this.net_socket[f]),
                                       f \in s.acquired))]

\* mutant: the IPv4 socket is not taken out of the field when released
rxe_net_release_keeps_sk4(s) ==
    LET s1 == IF is_some(s.this.net_socket.sk4)
              THEN [udp_tunnel_sock_release(s, "sk4")
                       EXCEPT !.this.net_socket.sk4 = s.this.net_socket.sk4]
              ELSE s
    IN  IF is_some(s1.this.net_socket.sk6)
        THEN udp_tunnel_sock_release(s1, "sk6") ELSE s1

rxe_net_release(s) ==
    LET s1 == IF is_some(s.this.net_socket.sk4)
              THEN udp_tunnel_sock_release(s, "sk4") ELSE s
    IN  IF is_some(s1.this.net_socket.sk6)
        THEN udp_tunnel_sock_release(s1, "sk6") ELSE s1

\* the three match blocks of RxeRecvSockets::alloc
alloc_ipv4(s, err) == ipv4_init(s, err)

alloc_ipv6(s, cfg, err) ==
    LET s1 == ipv6_init(s, cfg, err)
    IN  IF IsErr(s1.r) THEN [rxe_net_release(s1) EXCEPT !.r = s1.r] ELSE s1

alloc_notifier(s, err) ==
    LET s1 == net_notifier_register(s, err)
    IN  IF IsErr(s1.r) THEN [rxe_net_release(s1) EXCEPT !.r = s1.r] ELSE s1

\* this.rxe_link_ops = RxeRdmaLinkTable::<T>::build();
\* bindings::rdma_link_register(&mut this.rxe_link_ops)
rdma_link_register(s) ==
    [s EXCEPT !.this.rxe_link_ops = "RXELINKFUNC",
              !.kernel.published = TRUE,
              !.calls = Append(@, Call("publish", "rxe_link_ops", "self.rxe_link_ops",
                                       0, FALSE, s.kernel.published))]

rdma_link_unregister(s) ==
    [s EXCEPT !.kernel.published = FALSE,
              !.calls = Append(@, Call("unpublish", "rxe_link_ops",
                                       "self.rxe_link_ops", 0, FALSE,
                                       s.kernel.published))]

ib_unregister_driver(s) ==
    [s EXCEPT !.calls = Append(@, Call("ib_unregister_driver", "RDMA_DRIVER_RXE",
                                       "RDMA_DRIVER_RXE", 0, FALSE, FALSE))]

\* mutant: the already-registered guard is missing
Rxe_never_registered(t) == FALSE

\* if this.registered { return Err(EINVAL) }
Rxe_already_registered(t) == t.registered

\* mutant: the destructor does not look at registered
Rxe_Registration_drop_always(s) == ib_unregister_driver(rdma_link_unregister(s))

\* Drop for Registration<T: RxeOperation>
Rxe_Registration_drop(s) ==
    IF s.this.registered
    THEN ib_unregister_driver(rdma_link_unregister(s))
    ELSE s

\* Drop for RxeRecvSockets<T>
RxeRecvSockets_drop(s) ==
    LET s1 == rxe_net_release(s)
    IN  IF is_some(s1.this.net_socket.rxe_net_notifier)
        THEN unregister_netdevice_notifier(s1)
        ELSE s1

----------------------------------------------------------------------------
\* the operation-table adapters: what an entry point does when the host
\* calls it and the method of T returns res

\* the results a method of T may return
TResults == {Ok} \cup {Err(e) : e \in Errnos}

\* the opaque arguments of the host
HostArgs == {"null", "ptr"}

NoDispatch == [arg |-> "null", entry |-> "none", methods |-> <<>>, result |-> Ok, value |-> "none"]

\* mutant: the error of T::add() reaches the host
add_callback_propagates(arg, res) ==
    [arg |-> arg, entry |-> "add_callback", methods |-> <<"add">>, result |-> res,
     value |-> IF IsErr(res) THEN "ERR_PTR" ELSE "null"]

\* let _ = T::add(); return ptr::null_mut()
add_callback(arg, res) ==
    [arg |-> arg, entry |-> "add_callback", methods |-> <<"add">>, result |-> res,
     value |-> "null"]

\* let _ = T::remove()
remove_callback(arg, res) ==
    [arg |-> arg, entry |-> "remove_callback", methods |-> <<"remove">>, result |-> res,
     value |-> "()"]

\* let _ = T::event()
event_callback(arg, res) ==
    [arg |-> arg, entry |-> "event_callback", methods |-> <<"event">>, result |-> res,
     value |-> "()"]

\* let _ = T::notify(); return 0
rxe_notify(arg, res) ==
    [arg |-> arg, entry |-> "rxe_notify", methods |-> <<"notify">>, result |-> res,
     value |-> "0"]

\* let _ = T::newlink(); return 0
rxe_newlink(arg, res) ==
    [arg |-> arg, entry |-> "rxe_newlink", methods |-> <<"newlink">>, result |-> res,
     value |-> "0"]

\* let _ = T::udp_recv(); return 0
rxe_udp_encap_recv(arg, res) ==
    [arg |-> arg, entry |-> "rxe_udp_encap_recv", methods |-> <<"udp_recv">>, result |-> res,
     value |-> "0"]

\* Registration::new
NotPinned == <<"new">>

\* the destructor and then the destructors of the fields
DropAll(s) ==
    IF variant = "mlx4"
    THEN Mlx4_drop_fields(Mlx4_Registration_drop(s))
    ELSE RxeRecvSockets_drop(Rxe_Registration_drop(s))

\* the caller holds the Registration: it made it with new(), or new_pinned()
\* returned it
Owned == pinned \in {NotPinned, Ok}

----------------------------------------------------------------------------
Init ==
    /\ variant \in Variants
    /\ config_ipv6 \in BOOLEAN
    /\ variant = "mlx4" => config_ipv6 = FALSE
    /\ pc = "idle"
    /\ this = IF variant = "mlx4" THEN Mlx4New ELSE RxeNew
    /\ kernel = [workqueues |-> {}, socks |-> {}, netdev_chain |-> {},
                 published |-> FALSE]
    /\ acquired = {}
    /\ calls = <<>>
    /\ ret = NoResult
    /\ nreg = 0
    /\ past = <<>>
    /\ dispatch = NoDispatch
    /\ pinned = NotPinned

\* one step of register(): on Err the function returns, otherwise it goes on
Step(s, next) ==
    /\ Commit(s)
    /\ IF IsErr(s.r)
       THEN pc' = "idle" /\ ret' = s.r
       ELSE pc' = next /\ ret' = ret
    /\ UNCHANGED <<variant, config_ipv6, dispatch, pinned, nreg, past>>

\* entry of register(): the already-registered guard
Enter(already, first) ==
    /\ pc = "idle"
    /\ Owned \/ (pinned = <<"register">> /\ nreg = 0)
    /\ nreg < MaxRegisterCalls
    /\ nreg' = nreg + 1
    /\ calls' = <<>>
    /\ past' = past \o calls
    /\ IF already
       THEN pc' = "idle" /\ ret' = Err(EINVAL)
       ELSE pc' = first /\ ret' = NoResult
    /\ UNCHANGED <<variant, config_ipv6, dispatch, pinned, this, kernel, acquired>>

\* the results Queue::try_new, udp_sock_create4 and register_netdevice_notifier give
Results == {0} \cup Errnos

Mlx4Register ==
    /\ variant = "mlx4"
    /\ Enter(Mlx4_already_registered(this), "wq.init")

Mlx4InitWq ==
    /\ variant = "mlx4" /\ pc = "wq.init"
    /\ \E err \in Results : Step(Mlx4_register_wq(Cur, err), "qp_wq.init")

Mlx4InitQpWq ==
    /\ variant = "mlx4" /\ pc = "qp_wq.init"
    /\ \E err \in Results : Step(Mlx4_register_qp_wq(Cur, err), "cm_wq.init")

Mlx4InitCmWq ==
    /\ variant = "mlx4" /\ pc = "cm_wq.init"
    /\ \E err \in Results : Step(Mlx4_register_cm_wq(Cur, err), "mcg_wq.init")

Mlx4InitMcgWq ==
    /\ variant = "mlx4" /\ pc = "mcg_wq.init"
    /\ \E err \in Results :
           Step(Mlx4_register_mcg_wq(Cur, err), "mlx4_register_interface")

Mlx4Publish ==
    /\ variant = "mlx4" /\ pc = "mlx4_register_interface"
    /\ Step(mlx4_register_interface(Cur), "registered = true")

\* this.registered = true; Ok(())
SetRegistered ==
    /\ pc = "registered = true"
    /\ this' = [this EXCEPT !.registered = TRUE]
    /\ ret' = Ok
    /\ pc' = "idle"
    /\ UNCHANGED <<variant, config_ipv6, dispatch, pinned, kernel, acquired, calls, nreg, past>>

Mlx4Drop ==
    /\ variant = "mlx4" /\ pc = "idle" /\ Owned
    /\ Commit(Mlx4_Registration_drop([Cur EXCEPT !.calls = <<>>]))
    /\ past' = past \o calls
    /\ pc' = "drop fields"
    /\ UNCHANGED <<variant, config_ipv6, dispatch, pinned, ret, nreg>>

Mlx4DropFields ==
    /\ variant = "mlx4" /\ pc = "drop fields"
    /\ Commit(Mlx4_drop_fields(Cur))
    /\ pc' = "dropped"
    /\ UNCHANGED <<variant, config_ipv6, dispatch, pinned, ret, nreg, past>>

RxeRegister ==
    /\ variant = "rxe"
    /\ Enter(Rxe_already_registered(this), "ipv4_init")

RxeIpv4Init ==
    /\ variant = "rxe" /\ pc = "ipv4_init"
    /\ \E err \in Results : Step(alloc_ipv4(Cur, err), "ipv6_init")

RxeIpv6Init ==
    /\ variant = "rxe" /\ pc = "ipv6_init"
    /\ \E err \in Results \cup {EAFNOSUPPORT} :
           Step(alloc_ipv6(Cur, config_ipv6, err), "net_notifier_register")

RxeNotifierRegister ==
    /\ variant = "rxe" /\ pc = "net_notifier_register"
    /\ \E err \in Results : Step(alloc_notifier(Cur, err), "rdma_link_register")

RxePublish ==
    /\ variant = "rxe" /\ pc = "rdma_link_register"
    /\ Step(rdma_link_register(Cur), "registered = true")

RxeDrop ==
    /\ variant = "rxe" /\ pc = "idle" /\ Owned
    /\ Commit(Rxe_Registration_drop([Cur EXCEPT !.calls = <<>>]))
    /\ past' = past \o calls
    /\ pc' = "drop fields"
    /\ UNCHANGED <<variant, config_ipv6, dispatch, pinned, ret, nreg>>

RxeDropFields ==
    /\ variant = "rxe" /\ pc = "drop fields"
    /\ Commit(RxeRecvSockets_drop(Cur))
    /\ pc' = "dropped"
    /\ UNCHANGED <<variant, config_ipv6, dispatch, pinned, ret, nreg, past>>

Next ==
    \/ Mlx4Register \/ Mlx4InitWq \/ Mlx4InitQpWq \/ Mlx4InitCmWq \/ Mlx4InitMcgWq
    \/ Mlx4Publish \/ SetRegistered \/ Mlx4Drop \/ Mlx4DropFields
    \/ RxeRegister \/ RxeIpv4Init \/ RxeIpv6Init \/ RxeNotifierRegister
    \/ RxePublish \/ RxeDrop \/ RxeDropFields

Spec == Init /\ [][Next]_vars

\* the same program with a hosting kernel whose mlx4_register_interface may fail
Mlx4PublishFallible ==
    /\ variant = "mlx4" /\ pc = "mlx4_register_interface"
    /\ \E err \in Results :
           Step(mlx4_register_interface_fallible(Cur, err), "registered = true")

NextPublishFails ==
    \/ Mlx4Register \/ Mlx4InitWq \/ Mlx4InitQpWq \/ Mlx4InitCmWq \/ Mlx4InitMcgWq
    \/ Mlx4PublishFallible \/ SetRegistered \/ Mlx4Drop \/ Mlx4DropFields
    \/ RxeRegister \/ RxeIpv4Init \/ RxeIpv6Init \/ RxeNotifierRegister
    \/ RxePublish \/ RxeDrop \/ RxeDropFields

SpecPublishFails == Init /\ [][NextPublishFails]_vars

----------------------------------------------------------------------------
\* the host calling in through the entry points it has been handed

HostCall(d) ==
    /\ dispatch' = d
    /\ UNCHANGED <<variant, config_ipv6, pc, this, kernel, acquired, calls, ret,
                   nreg, past, pinned>>

HostAdd ==
    /\ variant = "mlx4" /\ kernel.published
    /\ \E arg \in HostArgs, res \in TResults : HostCall(add_callback(arg, res))

HostRemove ==
    /\ variant = "mlx4" /\ kernel.published
    /\ \E arg \in HostArgs, res \in TResults : HostCall(remove_callback(arg, res))

HostEvent ==
    /\ variant = "mlx4" /\ kernel.published
    /\ \E arg \in HostArgs, res \in TResults : HostCall(event_callback(arg, res))

HostNotify ==
    /\ variant = "rxe" /\ kernel.netdev_chain # {}
    /\ \E arg \in HostArgs, res \in TResults : HostCall(rxe_notify(arg, res))

HostNewlink ==
    /\ variant = "rxe" /\ kernel.published
    /\ \E arg \in HostArgs, res \in TResults : HostCall(rxe_newlink(arg, res))

HostUdpRecv ==
    /\ variant = "rxe" /\ kernel.socks # {}
    /\ \E arg \in HostArgs, res \in TResults : HostCall(rxe_udp_encap_recv(arg, res))

NextHost ==
    \/ Next
    \/ HostAdd \/ HostRemove \/ HostEvent
    \/ HostNotify \/ HostNewlink \/ HostUdpRecv

SpecHost == Init /\ [][NextHost]_vars

----------------------------------------------------------------------------
\* Registration::new_pinned

InitNewPinned ==
    /\ variant \in Variants
    /\ config_ipv6 \in BOOLEAN
    /\ variant = "mlx4" => config_ipv6 = FALSE
    /\ pc = "idle"
    /\ this = IF variant = "mlx4" THEN Mlx4New ELSE RxeNew
    /\ kernel = [workqueues |-> {}, socks |-> {}, netdev_chain |-> {},
                 published |-> FALSE]
    /\ acquired = {}
    /\ calls = <<>>
    /\ ret = NoResult
    /\ nreg = 0
    /\ past = <<>>
    /\ dispatch = NoDispatch
    /\ pinned = <<"Box::try_new">>

\* the Registration is dropped inside new_pinned(), which returns r
NewPinnedFails(r) ==
    /\ Commit(DropAll([Cur EXCEPT !.calls = <<>>]))
    /\ past' = past \o calls
    /\ pc' = "dropped"
    /\ pinned' = r
    /\ UNCHANGED <<variant, config_ipv6, dispatch, ret, nreg>>

\* let mut r = Pin::from(Box::try_new(Self::new(name))?)
NewPinnedBox ==
    /\ pinned = <<"Box::try_new">> /\ pc = "idle"
    /\ \E err \in Results :
           IF err # 0
           THEN NewPinnedFails(Err(err))
           ELSE /\ pinned' = <<"register">>
                /\ UNCHANGED <<variant, config_ipv6, pc, this, kernel, acquired,
                               calls, ret, nreg, past, dispatch>>

\* mutant: the result of register() is not looked at
NewPinnedReturn_ignores_err ==
    /\ pinned = <<"register">> /\ pc = "idle" /\ nreg = 1
    /\ pinned' = Ok
    /\ UNCHANGED <<variant, config_ipv6, pc, this, kernel, acquired,
                   calls, ret, nreg, past, dispatch>>

\* r.as_mut().register()?; Ok(r)
NewPinnedReturn ==
    /\ pinned = <<"register">> /\ pc = "idle" /\ nreg = 1
    /\ IF IsErr(ret)
       THEN NewPinnedFails(ret)
       ELSE /\ pinned' = Ok
            /\ UNCHANGED <<variant, config_ipv6, pc, this, kernel, acquired,
                           calls, ret, nreg, past, dispatch>>

NextNewPinned == Next \/ NewPinnedBox \/ NewPinnedReturn

SpecNewPinned == InitNewPinned /\ [][NextNewPinned]_vars

----------------------------------------------------------------------------
\* Reading the calls of the operation in progress

Idx == DOMAIN calls
Acquires == {i \in Idx : calls[i].op = "acquire"}
Releases == {i \in Idx : calls[i].op = "release"}
Publishes == {i \in Idx : calls[i].op = "publish"}
Unpublishes == {i \in Idx : calls[i].op = "unpublish"}

\* the acquisitions that succeeded
AcquiredOk == {i \in Acquires : calls[i].err = 0}
\* the IPv6 socket reported unsupported
Ipv6Absent == {i \in Acquires : calls[i].res = "sk6" /\ calls[i].err = EAFNOSUPPORT}
\* the acquisitions that failed
FailedAt == (Acquires \ AcquiredOk) \ Ipv6Absent

Pos(r) == CHOOSE k \in DOMAIN Order : Order[k] = r
SubResources == {Order[k] : k \in DOMAIN Order}
Mandatory == IF variant = "mlx4" THEN SubResources ELSE {"sk4", "rxe_net_notifier"}
Present(r) ==
    IF variant = "mlx4" THEN is_some(this[r]) ELSE is_some(this.net_socket[r])

ReleasesOf(r) == {i \in Releases : calls[i].res = r}

\* register() has returned after an acquisition failed
RegisterFailed == pc = "idle" /\ FailedAt # {}
\* a Registered instance has been destroyed
DestroyedRegistered == pc = "dropped" /\ this.registered

----------------------------------------------------------------------------
\* C1: when the k-th acquisition fails during register(), release calls are
\* made on exactly the sub-resources acquired before it, each once, none on
\* the failing or a later sub-resource, and on return every sub-resource is
\* absent and registered is false.
C1_RollbackReleasesExactlyAcquired ==
    RegisterFailed =>
        /\ \A i \in AcquiredOk : Cardinality(ReleasesOf(calls[i].res)) = 1
        /\ \A i \in Releases : \E j \in AcquiredOk : calls[j].res = calls[i].res
        /\ \A i \in Releases, j \in FailedAt : Pos(calls[i].res) < Pos(calls[j].res)
        /\ \A r \in SubResources : ~Present(r)
        /\ ~this.registered

\* C2: destroying a Registered instance invokes the unpublish call exactly
\* once, before the first sub-resource release call.
C2_UnpublishOnceBeforeRelease ==
    DestroyedRegistered =>
        /\ Cardinality(Unpublishes) = 1
        /\ \A u \in Unpublishes, i \in Releases : u < i

\* C3: the rollback of a failed register() releases the acquired
\* sub-resources in strictly reverse order of acquisition.
C3_RollbackReverseOrder ==
    RegisterFailed =>
        \A i, j \in Releases : i < j => Pos(calls[i].res) > Pos(calls[j].res)

\* C4: destroying a Registered instance releases every present sub-resource,
\* in reverse acquisition order.
C4_DestroyReverseOrder ==
    DestroyedRegistered =>
        /\ \A r \in Mandatory : Cardinality(ReleasesOf(r)) = 1
        /\ \A r \in SubResources : ~Present(r)
        /\ \A i, j \in Releases : i < j => Pos(calls[i].res) > Pos(calls[j].res)

\* C5: register() on a Registered instance returns EINVAL, leaves the
\* instance Registered and makes no acquisition, release or publish call.
C5_RegisterTwiceIsEINVAL ==
    [][(pc = "idle" /\ this.registered /\ nreg' = nreg + 1) =>
           /\ ret' = Err(EINVAL)
           /\ pc' = "idle"
           /\ this' = this
           /\ kernel' = kernel
           /\ acquired' = acquired
           /\ calls' = <<>>]_vars

C5_Witness ==
    pc = "idle" /\ this.registered /\ ret = Err(EINVAL) /\ calls = <<>> /\ nreg >= 2

\* C6: the publish call is made only after every acquisition step of this
\* register() has succeeded; once an acquisition has failed, publish is
\* never called.
C6_PublishAfterAllAcquisitions ==
    /\ \A p \in Publishes :
           /\ \A r \in Mandatory :
                  \E i \in AcquiredOk : i < p /\ calls[i].res = r
           /\ (variant = "rxe" /\ config_ipv6) =>
                  \E i \in AcquiredOk \cup Ipv6Absent : i < p /\ calls[i].res = "sk6"
           /\ \A i \in Acquires : i < p
    /\ FailedAt # {} => Publishes = {} /\ ~kernel.published

C6_Witness ==
    /\ pc = "registered = true"
    /\ Publishes # {}
    /\ kernel.published

\* C7: a sub-resource is present iff its last acquisition succeeded and it
\* has not been released since; a release call is only made on a
\* sub-resource that is then held (never twice for one acquisition, never
\* for none), and no acquisition is attempted on a present sub-resource.
C7_PresentIffAcquiredNotReleased ==
    /\ \A r \in SubResources : Present(r) <=> r \in acquired
    /\ \A i \in Releases : calls[i].held
    /\ \A i \in Acquires : ~calls[i].present

\* the caller is inside register()
InRegister == pc \notin {"idle", "drop fields", "dropped"}
\* the destructors have begun
InTeardown == pc \in {"drop fields", "dropped"}

C9_OriginatingErrorReturned ==
    RegisterFailed =>
        /\ Cardinality(FailedAt) = 1
        /\ \A i \in FailedAt :
               /\ ret = Err(calls[i].err)
               /\ Pos(calls[i].res) = 2 =>
                      /\ Cardinality(Releases) = 1
                      /\ \A j \in Releases : calls[j].res = Order[1]
        /\ ~this.registered

C9_Witness ==
    /\ RegisterFailed
    /\ ret = Err(-16)
    /\ \E i \in FailedAt : Pos(calls[i].res) = 2 /\ calls[i].err = -16
    /\ Cardinality(Releases) = 1

\* the IPv6 socket of this register() is unsupported or not configured
Ipv6Unsupported == variant = "rxe" /\ (~config_ipv6 \/ Ipv6Absent # {})
\* the call after which alloc() goes on to the notifier without an IPv6 socket
BeforeNotifier ==
    IF config_ipv6 THEN Ipv6Absent
    ELSE {i \in AcquiredOk : calls[i].res = "sk4"}

\* C10: rxe: an unsupported (EAFNOSUPPORT) or unconfigured IPv6 does not make
\* the acquisition fail: the IPv6 socket stays absent and the next step is
\* the notifier registration; if that fails, the rollback releases the IPv4
\* socket and makes no release call for the IPv6 socket.
C10_Ipv6AbsenceTolerated ==
    Ipv6Unsupported =>
        /\ \A i \in BeforeNotifier :
               /\ ~Present("sk6")
               /\ "sk6" \notin kernel.socks
               /\ IF i = Len(calls)
                  THEN /\ pc \in {"ipv6_init", "net_notifier_register"}
                       /\ config_ipv6 => pc = "net_notifier_register"
                       /\ Present("sk4")
                  ELSE /\ calls[i + 1].op = "acquire"
                       /\ calls[i + 1].res = "rxe_net_notifier"
        /\ (RegisterFailed /\ \E j \in FailedAt : calls[j].res = "rxe_net_notifier") =>
               /\ Cardinality(ReleasesOf("sk4")) = 1
               /\ ReleasesOf("sk6") = {}
               /\ ~Present("sk4")

C10_Witness ==
    /\ variant = "rxe"
    /\ RegisterFailed
    /\ Ipv6Absent # {}
    /\ \E j \in FailedAt : calls[j].res = "rxe_net_notifier"
    /\ ReleasesOf("sk4") # {}

----------------------------------------------------------------------------
\* every collaborator call made on the instance so far
History == past \o calls
HAcquiredOk(r) ==
    {i \in DOMAIN History :
        History[i].op = "acquire" /\ History[i].res = r /\ History[i].err = 0}
HReleases(r) ==
    {i \in DOMAIN History : History[i].op = "release" /\ History[i].res = r}

\* an Unregistered instance has been destroyed
DestroyedUnregistered == pc = "dropped" /\ ~this.registered

\* C11: destroying an Unregistered Registration (never registered, or left
\* Unregistered by a failed register()) makes no unpublish call and no
\* sub-resource release or unregister call.
C11_DestroyUnregisteredIsNoOp ==
    DestroyedUnregistered =>
        /\ calls = <<>>
        /\ kernel.workqueues = {} /\ kernel.socks = {} /\ kernel.netdev_chain = {}
        /\ ~kernel.published

C11_Witness ==
    /\ DestroyedUnregistered
    /\ IsErr(ret)
    /\ nreg >= 1
    /\ \E i \in DOMAIN past : past[i].op = "release"

\* register() has returned success with every collaborator succeeding
RegisterSucceeded ==
    /\ pc = "idle" /\ ret = Ok
    /\ \A i \in Acquires : calls[i].err = 0

\* the steps of a full acquisition sequence
FullSequence ==
    IF variant = "mlx4" THEN Mlx4Order
    ELSE IF config_ipv6 THEN RxeOrder
    ELSE <<"sk4", "rxe_net_notifier">>

\* C12: a register() that succeeds, also when it is a retry after failed
\* calls, runs the whole acquisition sequence from the first sub-resource,
\* acquires each sub-resource exactly once (none of them still present from
\* the failed call), publishes once and ends Registered.
C12_RetryRunsFullSequence ==
    RegisterSucceeded =>
        /\ Len(calls) = Len(FullSequence) + 1
        /\ \A k \in DOMAIN FullSequence :
               /\ calls[k].op = "acquire"
               /\ calls[k].res = FullSequence[k]
               /\ ~calls[k].present
               /\ ~calls[k].held
        /\ calls[Len(calls)].op = "publish"
        /\ this.registered
        /\ \A r \in Mandatory : Present(r)

C12_Witness ==
    /\ RegisterSucceeded
    /\ nreg = 3
    /\ \E i \in DOMAIN past : past[i].op = "acquire" /\ past[i].err # 0
    /\ \E i \in DOMAIN past : past[i].op = "release"

\* C13: once the Registration has been destroyed, each sub-resource has had
\* as many release calls as successful acquire calls.
C13_AcquireReleaseCountsMatch ==
    pc = "dropped" =>
        \A r \in SubResources :
            Cardinality(HAcquiredOk(r)) = Cardinality(HReleases(r))

\* the publish calls of this register() that reported failure
PublishFailed == {p \in Publishes : calls[p].err # 0}

\* C14: if every acquisition succeeds but the publish call reports failure,
\* register() releases the whole resource-set, returns an error and leaves
\* the instance Unregistered with every sub-resource absent.
C14_PublishFailureRollsBack ==
    (pc = "idle" /\ PublishFailed # {}) =>
        /\ IsErr(ret)
        /\ ~this.registered
        /\ \A r \in SubResources : ~Present(r)
        /\ \A r \in SubResources : Cardinality(ReleasesOf(r)) = 1

\* C15 as stated: from the publish call until teardown begins no field of
\* the Registration is written.
C15_NoWriteAfterPublish ==
    [][(kernel.published /\ pc' \notin {"drop fields", "dropped"}) =>
           this' = this]_vars

\* C15 amended: from the publish call until teardown begins the only write
\* to a field of the Registration is the assignment registered = true that
\* register() makes right after the publish call; once register() has
\* returned no field is written until teardown begins.
C15_OnlyRegisteredWrittenAfterPublish ==
    [][(kernel.published /\ pc' \notin {"drop fields", "dropped"}) =>
           \/ this' = this
           \/ /\ pc = "registered = true"
              /\ ~this.registered
              /\ this' = [this EXCEPT !.registered = TRUE]]_vars

C15_Witness ==
    /\ kernel.published
    /\ pc = "idle"
    /\ this.registered
    /\ nreg >= 2
    /\ ret = Err(EINVAL)

\* the addresses of the operation tables handed to the publish call
PublishedTables ==
    {History[i].arg : i \in {j \in DOMAIN History : History[j].op = "publish"}}

\* C16: while the publication lasts, the operation table handed to the
\* publish call is allocated, at the address the host was given.
C16_PublishedTableStaysAllocated ==
    kernel.published => \A a \in PublishedTables : StorageLive(a, pc)

----------------------------------------------------------------------------
\* the method of T that belongs to each entry point, and the value the
\* signature of the entry point makes it return
Corresponding ==
    [add_callback |-> "add", remove_callback |-> "remove",
     event_callback |-> "event", rxe_notify |-> "notify",
     rxe_newlink |-> "newlink", rxe_udp_encap_recv |-> "udp_recv"]
FixedValue ==
    [add_callback |-> "null", remove_callback |-> "()",
     event_callback |-> "()", rxe_notify |-> "0",
     rxe_newlink |-> "0", rxe_udp_encap_recv |-> "0"]

\* C17: each entry point of the operation-table adapter, for any host
\* arguments, invokes the corresponding method of T exactly once and no
\* other, and returns the same fixed value whether the method succeeded or
\* failed.
C17_EntryPointDispatchesOnce ==
    dispatch.entry # "none" =>
        /\ dispatch.entry \in DOMAIN Corresponding
        /\ dispatch.methods = <<Corresponding[dispatch.entry]>>
        /\ dispatch.value = FixedValue[dispatch.entry]

C17_Witness ==
    /\ dispatch.entry = "add_callback"
    /\ IsErr(dispatch.result)
    /\ dispatch.arg = "ptr"
    /\ dispatch.value = "null"

----------------------------------------------------------------------------
\* the release functions of the variant of the instance
ReleaseResults(s) ==
    IF variant = "mlx4"
    THEN {Mlx4WorkQueue_clean(s), QpWorkQueue_clean(s), CmWorkQueue_clean(s),
          McgWorkQueue_clean(s)}
    ELSE {rxe_net_release(s)}
\* the same, for the release functions whose sub-resources are all absent
AbsentReleaseResults(s) ==
    IF variant = "mlx4"
    THEN {WorkQueue_clean(s, f) : f \in {g \in SubResources : ~is_some(s.this[g])}}
    ELSE IF is_some(s.this.net_socket.sk4) \/ is_some(s.this.net_socket.sk6)
         THEN {}
         ELSE {rxe_net_release(s)}
TwiceIsOnce(s) ==
    IF variant = "mlx4"
    THEN \A f \in SubResources :
            WorkQueue_clean(WorkQueue_clean(s, f), f) = WorkQueue_clean(s, f)
    ELSE rxe_net_release(rxe_net_release(s)) = rxe_net_release(s)

\* C18: a release of an absent sub-resource makes no collaborator call and
\* leaves the state as it was, and two releases in a row do what one does.
C18_ReleaseIdempotent ==
    /\ \A s \in AbsentReleaseResults(Cur) : s = Cur
    /\ TwiceIsOnce(Cur)
    /\ \A s \in ReleaseResults(Cur) : TwiceIsOnce(s)

C18_Witness ==
    /\ variant = "rxe"
    /\ pc = "dropped"
    /\ ~this.registered
    /\ Cardinality(HReleases("sk4")) = 1
    /\ rxe_net_release(Cur) = Cur

----------------------------------------------------------------------------
\* C19: new_pinned() returns a Registration only when it is Registered; when
\* the allocation or register() fails it returns that error, and the
\* instance has then been destroyed, with no sub-resource present and
\* nothing published.
C19_NewPinnedRegisteredOrDestroyed ==
    /\ (pinned = Ok /\ ~InTeardown) => this.registered
    /\ IsErr(pinned) =>
          /\ pc = "dropped"
          /\ \/ nreg = 0 /\ pinned \in {Err(e) : e \in Errnos}
             \/ nreg = 1 /\ pinned = ret
          /\ \A r \in SubResources : ~Present(r)
          /\ acquired = {}
          /\ kernel.workqueues = {} /\ kernel.socks = {}
          /\ kernel.netdev_chain = {}
          /\ ~kernel.published

C19_Witness ==
    /\ IsErr(pinned)
    /\ nreg = 1
    /\ pinned = ret
    /\ pc = "dropped"
    /\ \E i \in DOMAIN History : History[i].op = "release"

----------------------------------------------------------------------------
\* the calls that unregister the notifier, and the one that registered it
NotifierUnregisters ==
    {i \in DOMAIN History :
        History[i].op = "release" /\ History[i].res = "rxe_net_notifier"}
NotifierRegistered(i) ==
    {j \in 1..(i - 1) :
        /\ History[j].op = "acquire" /\ History[j].res = "rxe_net_notifier"
        /\ History[j].err = 0}

\* C20: every notifier unregister call passes the notifier object that the
\* successful register call was given, and is made only while the notifier
\* is registered with the host; once a Registered instance is destroyed the
\* host holds no registered notifier of it.
C20_NotifierUnregisteredAtItsAddress ==
    /\ \A i \in NotifierUnregisters :
          /\ History[i].held
          /\ \E j \in NotifierRegistered(i) : History[j].arg = History[i].arg
    /\ DestroyedRegistered => kernel.netdev_chain = {}

----------------------------------------------------------------------------
\* the host has called an entry point of the rxe adapter in this step
RxeDispatched == variant = "rxe" /\ dispatch' # dispatch

\* C21: in the rxe variant the host dispatches a method of T only while
\* the Registration is Registered: not during a register() in progress
\* before the publish call, and not after a register() that failed and
\* rolled back.
C21_DispatchOnlyWhileRegistered ==
    [][RxeDispatched => (this.registered /\ pc # "dropped")]_vars
====
